---- MODULE Spec2Model ----
(***************************************************************************)
(* LuvvTapp browser client (src/luvvtapp-react/src/App.jsx) as a state     *)
(* machine.  The state is the React state of App and of its mounted child  *)
(* components, the browser's localStorage and the set of HTTP requests in  *)
(* flight.  One action per event handler call and one per continuation     *)
(* that runs when a request is answered.  The backend is the environment: *)
(* it answers every request with a success, a non-success status or a     *)
(* network failure, in any order and at any time.                          *)
(*                                                                         *)
(* A handler runs to its first await atomically (JavaScript is             *)
(* single-threaded) and reads the state of the render it was created in,   *)
(* which is the current state when the event fires.  The code after an     *)
(* await still reads that render's values: they are kept in the request's  *)
(* cap field.  sidebarOpen and the scroll effect are layout only and are   *)
(* left out.                                                               *)
(***************************************************************************)
EXTENDS Integers, Sequences, FiniteSets, TLC

\* ------------------------------------------------------------------ bounds
\* user-initiated requests per run
MaxReq == 2
\* createUser calls per run (values of Date.now())
MaxUsers == 1
\* user-initiated requests per run in the specifications of failures and of
\* follow-up requests
MaxFailing == 1
\* characters the user may type beyond the advice situation limit
Over == 2

\* ------------------------------------------------------- program constants
\* adviceSituation limit: slice(0,1000)
MaxSituation == 1000
\* AddPartnerProfileWizard: const total = 3
total == 3

\* ------------------------------------------------------------------ values
\* JavaScript null and undefined
NULL == [null |-> TRUE]
UNDEFINED == [undefined |-> TRUE]

\* `user_${Date.now()}` at clock value t
NewUserId(t) == [user |-> t]
\* the id a returning user has in localStorage
StoredUser == [user |-> 0]
\* session and advice ids handed out by the backend
SessionIdOf(n) == [session |-> n]
AdviceIdOf(n) == [advice |-> n]

STORAGE_KEY == "luvvtapp_user_id"
OTHER_KEY == "luvvtapp_other"

\* ------------------------------------------------------------------ strings
\* A string is kept as the sequence of its runs: [c |-> character, n |-> how
\* many times in a row], no two adjacent runs of the same character.  The
\* empty string is <<>>.
Min(a, b) == IF a < b THEN a ELSE b
Max(a, b) == IF a > b THEN a ELSE b

\* the character c, n times, in front of the string t
Cons(c, n, t) ==
  IF n = 0 THEN t
  ELSE IF t # <<>> /\ Head(t).c = c
       THEN <<[c |-> c, n |-> n + Head(t).n]>> \o Tail(t)
       ELSE <<[c |-> c, n |-> n]>> \o t

\* the string of a sequence of characters
RECURSIVE Text(_)
Text(cs) == IF cs = <<>> THEN <<>> ELSE Cons(Head(cs), 1, Text(Tail(cs)))

\* n copies of the character c
Repeat(c, n) == Cons(c, n, <<>>)

\* a + b
RECURSIVE Concat(_, _)
Concat(a, b) == IF a = <<>> THEN b ELSE Cons(Head(a).c, Head(a).n, Concat(Tail(a), b))

\* s.length
RECURSIVE Length(_)
Length(s) == IF s = <<>> THEN 0 ELSE Head(s).n + Length(Tail(s))

IsSpace(c) == c \in {" "}

RECURSIVE TrimStart(_)
TrimStart(s) == IF s # <<>> /\ IsSpace(Head(s).c) THEN TrimStart(Tail(s)) ELSE s

RECURSIVE TrimEnd(_)
TrimEnd(s) ==
  IF s # <<>> /\ IsSpace(s[Len(s)].c) THEN TrimEnd(SubSeq(s, 1, Len(s) - 1)) ELSE s

\* String.prototype.trim
Trim(s) == TrimEnd(TrimStart(s))

\* a check that takes only the empty string for blank
IsBlank_emptyOnly(s) == s = <<>>

\* !s.trim()
IsBlank(s) == Trim(s) = <<>>

\* s.slice(0, n)
RECURSIVE Slice0(_, _)
Slice0(s, n) ==
  IF s = <<>> \/ n <= 0 THEN <<>>
  ELSE Cons(Head(s).c, Min(Head(s).n, n), Slice0(Tail(s), n - Head(s).n))

\* ------------------------------------------------------------ localStorage
\* a function from the keys present to their values
getItem(ls, k) == IF k \in DOMAIN ls THEN ls[k] ELSE NULL
setItem(ls, k, v) == [x \in (DOMAIN ls) \cup {k} |-> IF x = k THEN v ELSE ls[x]]
removeItem(ls, k) == [x \in (DOMAIN ls) \ {k} |-> ls[x]]
EmptyStorage == [x \in {} |-> NULL]

\* ------------------------------------------------------------------- state
VARIABLES
  currentView, userId, userProfile, relationships, selectedRelationship,
  messages, adviceOpen, adviceTopic, adviceSituation, advicePartner,
  adviceLoading, adviceList, selectedAdvice, sessions, inputMessage,
  sessionId, loading,
  localStorage,
  onboarding,      \* OnboardingScreen's state while mounted, else NULL
  wizard,          \* AddPartnerProfileWizard's state while mounted, else NULL
  net,             \* requests in flight
  nextId,          \* number of requests issued so far
  issued,          \* number of user-initiated requests so far
  clock,           \* number of Date.now() readings so far
  uncaught,        \* an error left a handler uncaught (unhandled rejection)
  typed,           \* the text the user last put into the situation textarea
  resetBy,         \* what started the chat on screen (mount or the last reset)
  deleted,         \* the advice ids whose DELETE was answered with a success
  opened,          \* the session of the latest openSession call, else NULL
  last             \* the handler step taken last, with the state before it

appVars == <<currentView, userId, userProfile, relationships, selectedRelationship,
             messages, adviceOpen, adviceTopic, adviceSituation, advicePartner,
             adviceLoading, adviceList, selectedAdvice, sessions, inputMessage,
             sessionId, loading>>

vars == <<currentView, userId, userProfile, relationships, selectedRelationship,
          messages, adviceOpen, adviceTopic, adviceSituation, advicePartner,
          adviceLoading, adviceList, selectedAdvice, sessions, inputMessage,
          sessionId, loading, localStorage, onboarding, wizard, net, nextId,
          issued, clock, uncaught, typed, resetBy, deleted, opened,
          last>>

\* what is not program state: kept to state the properties
aux == <<uncaught, typed, resetBy, deleted, opened>>

\* The user-visible state the handlers work on.
Ui == [messages |-> messages, inputMessage |-> inputMessage, sessionId |-> sessionId,
       selectedRelationship |-> selectedRelationship, selectedAdvice |-> selectedAdvice,
       adviceList |-> adviceList, adviceOpen |-> adviceOpen, adviceTopic |-> adviceTopic,
       adviceSituation |-> adviceSituation, advicePartner |-> advicePartner,
       currentView |-> currentView, userId |-> userId, userProfile |-> userProfile,
       stored |-> getItem(localStorage, STORAGE_KEY), keys |-> DOMAIN localStorage]

\* last after a step of handler op.  step: what the step was (a user
\* interface event, a call that returned early, a call that issued requests,
\* or the end of a request: ok, status, network); ids: the requests the step
\* was about; new: the requests it issued; pre: the state before it; call:
\* at the end of a request, the state before its call when the call was the
\* step just before (nothing else happened in between), else NULL.
DidUi(op) == [op |-> op, step |-> "ui", ids |-> {}, new |-> {}, pre |-> NULL, call |-> NULL]
DidNoop(op) == [op |-> op, step |-> "noop", ids |-> {}, new |-> {}, pre |-> Ui, call |-> NULL]
DidCall(op, ids) ==
  [op |-> op, step |-> "call", ids |-> ids, new |-> ids, pre |-> Ui, call |-> NULL]
DidEnd(op, how, r, new) ==
  [op |-> op, step |-> how, ids |-> {r.id}, new |-> new, pre |-> Ui,
   call |-> IF last.step = "call" /\ r.id \in last.ids THEN last.pre ELSE NULL]

\* if (!userId || !userProfile) return <OnboardingScreen .../>
ShowsOnboarding(uid, prof) == uid = NULL \/ prof = NULL
Main == ~ShowsOnboarding(userId, userProfile)

OnboardingInit == [step |-> 1,
                   formData |-> [name |-> <<>>, email |-> <<>>, personalityType |-> <<>>,
                                 loveLanguage |-> <<>>, communicationStyle |-> <<>>]]

\* The wizard's state when mounted.  inst is not in the program: it tells one
\* mounted instance from the next (the number of requests issued before it was
\* mounted).  Of the nine optional fields only love_language is kept: the
\* others are passed on the same way (x || undefined) and no handler reads them.
WizardInit(stamp) ==
  [inst |-> stamp, step |-> 1, saving |-> FALSE,
   form |-> [name |-> <<>>, birthday |-> "", relationship_status |-> "romantic",
             love_language |-> <<>>]]

\* React keeps a component's state while it stays mounted and starts it anew
\* when it is mounted again.
MountOnboarding(ob, uid, prof) ==
  IF ShowsOnboarding(uid, prof) THEN (IF ob = NULL THEN OnboardingInit ELSE ob) ELSE NULL

MountWizard(wz, uid, prof, view, stamp) ==
  IF ~ShowsOnboarding(uid, prof) /\ view = "addPartner"
  THEN (IF wz = NULL THEN WizardInit(stamp) ELSE wz)
  ELSE NULL

\* ---------------------------------------------------------------- requests
\* A request in flight: its id, the handler that issued it, method and url,
\* the JSON body, and cap, the values the handler's continuation still reads.
Url(path, arg) == [path |-> path, arg |-> arg]

Request(id, op, method, url, body, cap) ==
  [id |-> id, op |-> op, method |-> method, url |-> url, body |-> body, cap |-> cap]

Pending(op) == {r \in net : r.op = op}

\* how a request that does not succeed ends
Failures == {"status", "network"}

\* loadUserProfile: fetch(`/api/users/${userId}`), no guard on userId
loadUserProfileReq(id, uid) ==
  {Request(id, "loadUserProfile", "GET", Url("/api/users/{}", uid), NULL, NULL)}

\* loadRelationships: fetch(`/api/relationships/${userId}`), no guard on userId
loadRelationshipsReq(id, uid) ==
  {Request(id, "loadRelationships", "GET", Url("/api/relationships/{}", uid), NULL, NULL)}

\* loadAdviceList: if (!userId) return
loadAdviceListReq(id, uid) ==
  IF uid = NULL THEN {}
  ELSE {Request(id, "loadAdviceList", "GET", Url("/api/advice/{}", uid), NULL, NULL)}

\* loadSessions: if (!userId) return
loadSessionsReq(id, uid) ==
  IF uid = NULL THEN {}
  ELSE {Request(id, "loadSessions", "GET", Url("/api/sessions/{}", uid), NULL, NULL)}

\* an effect that calls its four loads whether or not there is a user id
userIdEffect_unguarded(id, uid) ==
  loadUserProfileReq(id + 1, uid) \cup loadRelationshipsReq(id + 2, uid)
  \cup loadSessionsReq(id + 3, uid) \cup loadAdviceListReq(id + 4, uid)
  \cup loadSessionsReq(id + 5, uid)

\* useEffect(..., [userId]): the requests it issues for user id uid, numbered
\* from id + 1
userIdEffect(id, uid) ==
  (IF uid # NULL
   THEN loadUserProfileReq(id + 1, uid) \cup loadRelationshipsReq(id + 2, uid)
        \cup loadSessionsReq(id + 3, uid) \cup loadAdviceListReq(id + 4, uid)
   ELSE {})
  \cup loadSessionsReq(id + 5, uid)

Ids(reqs) == {r.id : r \in reqs}

\* ----------------------------------------------------------------- backend
\* What the backend may answer.  It is outside the repository: its answers
\* are drawn from the small sets below.  A GET for a user id the backend was
\* never given ("/api/users/null") is not answered with a success.
CanSucceed(r) == r.url.arg # NULL

\* self_assessment objects: a function from the keys present to their values
Assessments == {[k \in {"personality_type"} |-> Text(<<"I">>)]}

\* GET /api/users/{id}
ProfileData(uid) == {[user_id |-> uid, self_assessment |-> sa] : sa \in Assessments}

PartnerProfile(uid, name) == [name |-> name, user |-> uid]
Relationship(uid, type, name) ==
  [relationship_type |-> type, partner_profile |-> PartnerProfile(uid, name)]

\* GET /api/relationships/{userId}: with or without a relationships field
RelationshipsData(uid) ==
  {[none |-> TRUE],
   [relationships |-> <<Relationship(uid, "romantic", Text(<<"A">>))>>]}

\* GET /api/sessions/{userId}: with or without a sessions field
SessionsData(uid) ==
  {[none |-> TRUE],
   [sessions |-> <<[session_id |-> SessionIdOf(1), user |-> uid, context_type |-> "general"],
                   [session_id |-> SessionIdOf(2), user |-> uid, context_type |-> "partner"]>>]}

\* data.field || []
OrEmpty(data, field) == IF field \in DOMAIN data THEN data[field] ELSE <<>>

\* --------------------------------------------------------------------- Init
Init ==
  /\ localStorage \in {EmptyStorage, setItem(EmptyStorage, STORAGE_KEY, StoredUser)}
  /\ currentView = "chat"
  /\ userId = getItem(localStorage, STORAGE_KEY)
  /\ userProfile = NULL
  /\ relationships = <<>>
  /\ selectedRelationship = NULL
  /\ messages = <<>>
  /\ adviceOpen = FALSE
  /\ adviceTopic = "Communication"
  /\ adviceSituation = <<>>
  /\ advicePartner = NULL
  /\ adviceLoading = FALSE
  /\ adviceList = <<>>
  /\ selectedAdvice = NULL
  /\ sessions = <<>>
  /\ inputMessage = <<>>
  /\ sessionId = NULL
  /\ loading = FALSE
  /\ onboarding = OnboardingInit
  /\ wizard = NULL
  /\ net = userIdEffect(0, userId)
  /\ nextId = 5
  /\ issued = 0
  /\ clock = 0
  /\ uncaught = FALSE
  /\ typed = <<>>
  /\ resetBy = "mount"
  /\ deleted = {}
  /\ opened = NULL
  /\ last = DidCall("mount", Ids(userIdEffect(0, userId)))

\* ------------------------------------------------------------ bootstrap loads
loadUserProfile_ok(r) ==
  /\ r \in Pending("loadUserProfile")
  /\ CanSucceed(r)
  /\ \E data \in ProfileData(r.url.arg) :
       /\ userProfile' = data
       /\ onboarding' = MountOnboarding(onboarding, userId, data)
       /\ wizard' = MountWizard(wizard, userId, data, currentView, nextId)
  /\ net' = net \ {r}
  /\ last' = DidEnd("loadUserProfile", "ok", r, {})
  /\ UNCHANGED <<currentView, userId, relationships, selectedRelationship, messages,
                 adviceOpen, adviceTopic, adviceSituation, advicePartner, adviceLoading,
                 adviceList, selectedAdvice, sessions, inputMessage, sessionId, loading,
                 localStorage, nextId, issued, clock, aux>>

\* A load that fails: a non-success status skips the if, a network failure
\* is caught and logged.  Either way no state is set.
load_fail(op, r, how) ==
  /\ r \in Pending(op)
  /\ how \in Failures
  /\ net' = net \ {r}
  /\ last' = DidEnd(op, how, r, {})
  /\ UNCHANGED <<appVars, localStorage, onboarding, wizard, nextId, issued, clock, aux>>

loadUserProfile_fail(r, how) == load_fail("loadUserProfile", r, how)

loadRelationships_ok(r, data) ==
  /\ r \in Pending("loadRelationships")
  /\ CanSucceed(r)
  /\ data \in RelationshipsData(r.url.arg)
  /\ relationships' = OrEmpty(data, "relationships")
  /\ net' = net \ {r}
  /\ last' = DidEnd("loadRelationships", "ok", r, {})
  /\ UNCHANGED <<currentView, userId, userProfile, selectedRelationship, messages,
                 adviceOpen, adviceTopic, adviceSituation, advicePartner, adviceLoading,
                 adviceList, selectedAdvice, sessions, inputMessage, sessionId, loading,
                 localStorage, onboarding, wizard, nextId, issued, clock, aux>>

loadRelationships_fail(r, how) == load_fail("loadRelationships", r, how)

loadSessions_ok(r, data) ==
  /\ r \in Pending("loadSessions")
  /\ CanSucceed(r)
  /\ data \in SessionsData(r.url.arg)
  /\ sessions' = OrEmpty(data, "sessions")
  /\ net' = net \ {r}
  /\ last' = DidEnd("loadSessions", "ok", r, {})
  /\ UNCHANGED <<currentView, userId, userProfile, relationships, selectedRelationship,
                 messages, adviceOpen, adviceTopic, adviceSituation, advicePartner,
                 adviceLoading, adviceList, selectedAdvice, inputMessage, sessionId,
                 loading, localStorage, onboarding, wizard, nextId, issued, clock,
                 aux>>

loadSessions_fail(r, how) == load_fail("loadSessions", r, how)

\* -------------------------------------------------------------- onboarding
\* what the user may enter in each field of the onboarding form
OnboardingValues ==
  [name |-> {<<>>, Text(<<"n">>)}, email |-> {<<>>, Text(<<"e">>)},
   personalityType |-> {<<>>, Text(<<"I">>)}, loveLanguage |-> {<<>>, Text(<<"Q">>)},
   communicationStyle |-> {<<>>, Text(<<"d">>)}]

\* the fields shown at each step
OnboardingFields(step) ==
  IF step = 1 THEN {"name", "email"}
  ELSE {"personalityType", "loveLanguage", "communicationStyle"}

\* onChange of an onboarding input: setFormData({...formData, [field]: value})
onboardingChange(field, value) ==
  /\ onboarding # NULL
  /\ field \in OnboardingFields(onboarding.step)
  /\ value \in OnboardingValues[field]
  /\ value # onboarding.formData[field]
  /\ onboarding' = [onboarding EXCEPT !.formData[field] = value]
  /\ last' = DidUi("onboardingChange")
  /\ UNCHANGED <<appVars, localStorage, wizard, net, nextId, issued, clock, aux>>

\* Continue: disabled={!formData.name || !formData.email}, onClick setStep(2)
onboardingContinue ==
  /\ onboarding # NULL
  /\ onboarding.step = 1
  /\ onboarding.formData.name # <<>>
  /\ onboarding.formData.email # <<>>
  /\ onboarding' = [onboarding EXCEPT !.step = 2]
  /\ last' = DidUi("onboardingContinue")
  /\ UNCHANGED <<appVars, localStorage, wizard, net, nextId, issued, clock, aux>>

\* Back: setStep(1)
onboardingBack ==
  /\ onboarding # NULL
  /\ onboarding.step = 2
  /\ onboarding' = [onboarding EXCEPT !.step = 1]
  /\ last' = DidUi("onboardingBack")
  /\ UNCHANGED <<appVars, localStorage, wizard, net, nextId, issued, clock, aux>>

\* OnboardingScreen.handleSubmit: the assessment object gets a key for every
\* optional field that is not empty
AssessmentKeys == [personality_type |-> "personalityType", love_language |-> "loveLanguage",
                   communication_style |-> "communicationStyle"]

BuildAssessment(formData) ==
  [k \in {key \in DOMAIN AssessmentKeys : formData[AssessmentKeys[key]] # <<>>}
     |-> formData[AssessmentKeys[k]]]

\* a form that passes the assessment object however empty
AssessmentArg_always(formData) == BuildAssessment(formData)

\* Object.keys(assessment).length > 0 ? assessment : null
AssessmentArg(formData) ==
  IF DOMAIN BuildAssessment(formData) # {} THEN BuildAssessment(formData) ELSE NULL

\* createUser up to its await: the POST /api/users request
createUserReq(id, newUserId, name, email, assessment, uid) ==
  Request(id, "createUser", "POST", Url("/api/users", NULL),
          [user_id |-> newUserId, name |-> name, email |-> email,
           self_assessment |-> assessment],
          [newUserId |-> newUserId, userId |-> uid])

\* Get Started: handleSubmit calls onComplete = createUser
handleSubmit ==
  /\ onboarding # NULL
  /\ onboarding.step = 2
  /\ clock < MaxUsers
  /\ clock' = clock + 1
  /\ net' = net \cup {createUserReq(nextId + 1, NewUserId(clock + 1),
                                    onboarding.formData.name, onboarding.formData.email,
                                    AssessmentArg(onboarding.formData), userId)}
  /\ nextId' = nextId + 1
  /\ last' = DidCall("createUser", {nextId + 1})
  /\ UNCHANGED <<appVars, localStorage, onboarding, wizard, issued, aux>>

\* createUser after a successful response: setUserId(newUserId),
\* localStorage.setItem, loadUserProfile() of the render the handler was
\* created in, then the userId effect of the next render.
\* a client that keeps the id under another key
createUserStore_otherKey(ls, newUserId) == setItem(ls, OTHER_KEY, newUserId)

createUserStore(ls, newUserId) == setItem(ls, STORAGE_KEY, newUserId)

createUser_ok(r) ==
  /\ r \in Pending("createUser")
  /\ userId' = r.cap.newUserId
  /\ localStorage' = createUserStore(localStorage, r.cap.newUserId)
  /\ net' = (net \ {r}) \cup loadUserProfileReq(nextId + 1, r.cap.userId)
              \cup (IF r.cap.newUserId # userId
                    THEN userIdEffect(nextId + 1, r.cap.newUserId) ELSE {})
  /\ nextId' = nextId + 6
  /\ onboarding' = MountOnboarding(onboarding, r.cap.newUserId, userProfile)
  /\ wizard' = MountWizard(wizard, r.cap.newUserId, userProfile, currentView, nextId + 6)
  /\ last' = DidEnd("createUser", "ok", r,
                   Ids(loadUserProfileReq(nextId + 1, r.cap.userId)
                       \cup (IF r.cap.newUserId # userId
                             THEN userIdEffect(nextId + 1, r.cap.newUserId) ELSE {})))
  /\ UNCHANGED <<currentView, userProfile, relationships, selectedRelationship, messages,
                 adviceOpen, adviceTopic, adviceSituation, advicePartner, adviceLoading,
                 adviceList, selectedAdvice, sessions, inputMessage, sessionId, loading,
                 issued, clock, aux>>

createUser_fail(r, how) == load_fail("createUser", r, how)

\* Sign Out: localStorage.removeItem('luvvtapp_user_id'); setUserId(null);
\* the userId effect then runs with no user id
signOutStore(ls) == removeItem(ls, STORAGE_KEY)

signOut ==
  /\ Main
  /\ localStorage' = signOutStore(localStorage)
  /\ userId' = NULL
  /\ net' = net \cup userIdEffect(nextId, NULL)
  /\ onboarding' = MountOnboarding(onboarding, NULL, userProfile)
  /\ wizard' = MountWizard(wizard, NULL, userProfile, currentView, nextId)
  /\ last' = DidCall("signOut", Ids(userIdEffect(nextId, NULL)))
  /\ UNCHANGED <<currentView, userProfile, relationships, selectedRelationship, messages,
                 adviceOpen, adviceTopic, adviceSituation, advicePartner, adviceLoading,
                 adviceList, selectedAdvice, sessions, inputMessage, sessionId, loading,
                 nextId, issued, clock, aux>>

\* --------------------------------------------------------------------- chat
\* what the user may type into the chat input
ChatTexts == {<<>>, Text(<<" ">>), Text(<<"a">>)}

\* JSON.stringify of an object: a key whose value is undefined is left out
\* (objs: the keys that hold an object, null or undefined)
Json(obj, objs) ==
  [k \in {x \in DOMAIN obj : x \in objs => obj[x] # UNDEFINED} |-> obj[k]]

\* x || dflt for a string
OrString(x, dflt) == IF x = "" THEN dflt ELSE x

\* input onChange: setInputMessage(e.target.value)
setInputMessage(text) ==
  /\ Main
  /\ currentView = "chat"
  /\ text \in ChatTexts
  /\ text # inputMessage
  /\ inputMessage' = text
  /\ last' = DidUi("setInputMessage")
  /\ UNCHANGED <<currentView, userId, userProfile, relationships, selectedRelationship,
                 messages, adviceOpen, adviceTopic, adviceSituation, advicePartner,
                 adviceLoading, adviceList, selectedAdvice, sessions, sessionId, loading,
                 localStorage, onboarding, wizard, net, nextId, issued, clock, aux>>

\* The transcript's entries are {role, content}; req is not in the program:
\* it names the chat request the entry belongs to (0: none).
Message(role, content, req) == [role |-> role, content |-> content, req |-> req]

\* the body of POST /api/chat, from the state of the render sendMessage runs in
chatBody(uid, text, rel, prof, sid) ==
  Json([user_id |-> uid,
        message |-> text,
        relationship_type |-> IF rel = NULL THEN "general"
                              ELSE OrString(rel.relationship_type, "general"),
        partner_profile |-> IF rel = NULL THEN UNDEFINED ELSE rel.partner_profile,
        self_assessment |-> IF prof = NULL THEN UNDEFINED ELSE prof.self_assessment,
        session_id |-> sid],
       {"partner_profile", "self_assessment"})

\* a client that shows the user message only once it is answered
appendUserMessage_later(msgs, text, id) == msgs

\* setMessages([...messages, userMsg])
appendUserMessage(msgs, text, id) == Append(msgs, Message("user", text, id))

\* sendMessage up to its await.  The Send button is disabled while loading or
\* while the input is blank; the Enter key calls sendMessage whenever pressed.
sendMessage(via) ==
  /\ Main
  /\ currentView = "chat"
  /\ via \in {"button", "enter"}
  /\ via = "button" => (~loading /\ ~IsBlank(inputMessage))
  /\ IF IsBlank(inputMessage)
     THEN /\ last' = DidNoop("sendMessage")
          /\ UNCHANGED <<appVars, net, nextId, issued>>
     ELSE /\ issued < MaxReq
          /\ messages' = appendUserMessage(messages, inputMessage, nextId + 1)
          /\ inputMessage' = <<>>
          /\ loading' = TRUE
          /\ net' = net \cup
               {Request(nextId + 1, "sendMessage", "POST", Url("/api/chat", NULL),
                        chatBody(userId, inputMessage, selectedRelationship, userProfile,
                                 sessionId),
                        NULL)}
          /\ nextId' = nextId + 1
          /\ issued' = issued + 1
          /\ last' = DidCall("sendMessage", {nextId + 1})
          /\ UNCHANGED <<currentView, userId, userProfile, relationships,
                         selectedRelationship, adviceOpen, adviceTopic, adviceSituation,
                         advicePartner, adviceLoading, adviceList, selectedAdvice,
                         sessions, sessionId>>
  /\ UNCHANGED <<localStorage, onboarding, wizard, clock, aux>>

\* POST /api/chat answers {session_id, response}: the session of the request,
\* or a new one when the request names none
ChatData(r) ==
  [session_id |-> IF r.body.session_id = NULL THEN [chat |-> r.id] ELSE r.body.session_id,
   response |-> Concat(Text(<<">">>), r.body.message)]

\* a client that puts each reply right after the user message it answers
RECURSIVE appendReply_inPlace(_, _, _)
appendReply_inPlace(prev, r, data) ==
  IF prev = <<>> THEN <<Message("assistant", data.response, r.id)>>
  ELSE IF Head(prev).role = "user" /\ Head(prev).req = r.id
       THEN <<Head(prev), Message("assistant", data.response, r.id)>> \o Tail(prev)
       ELSE <<Head(prev)>> \o appendReply_inPlace(Tail(prev), r, data)

\* setMessages(prev => [...prev, {role: 'assistant', content: data.response}])
appendReply(prev, r, data) == Append(prev, Message("assistant", data.response, r.id))

\* sendMessage after a successful response, then finally setLoading(false)
sendMessage_ok(r) ==
  /\ r \in Pending("sendMessage")
  /\ sessionId' = ChatData(r).session_id
  /\ messages' = appendReply(messages, r, ChatData(r))
  /\ loading' = FALSE
  /\ net' = net \ {r}
  /\ last' = DidEnd("sendMessage", "ok", r, {})
  /\ UNCHANGED <<currentView, userId, userProfile, relationships, selectedRelationship,
                 adviceOpen, adviceTopic, adviceSituation, advicePartner, adviceLoading,
                 adviceList, selectedAdvice, sessions, inputMessage, localStorage,
                 onboarding, wizard, nextId, issued, clock, aux>>

\* a client that shows an apology when the request fails
failedReply_apology(prev, r) == Append(prev, Message("assistant", Text(<<"!">>), r.id))

\* what sendMessage does to the transcript when its request fails: nothing
failedReply(prev, r) == prev

\* sendMessage after a non-success status or a caught network failure, then
\* finally setLoading(false)
sendMessage_fail(r, how) ==
  /\ r \in Pending("sendMessage")
  /\ how \in Failures
  /\ messages' = failedReply(messages, r)
  /\ loading' = FALSE
  /\ net' = net \ {r}
  /\ last' = DidEnd("sendMessage", how, r, {})
  /\ UNCHANGED <<currentView, userId, userProfile, relationships, selectedRelationship,
                 adviceOpen, adviceTopic, adviceSituation, advicePartner, adviceLoading,
                 adviceList, selectedAdvice, sessions, inputMessage, sessionId,
                 localStorage, onboarding, wizard, nextId, issued, clock, aux>>

\* New Chat: setMessages([]); setSessionId(null); setCurrentView('chat')
newChat ==
  /\ Main
  /\ messages' = <<>>
  /\ sessionId' = NULL
  /\ currentView' = "chat"
  /\ wizard' = MountWizard(wizard, userId, userProfile, "chat", nextId)
  /\ resetBy' = "newChat"
  /\ UNCHANGED <<deleted, opened>>
  /\ last' = DidUi("newChat")
  /\ UNCHANGED <<userId, userProfile, relationships, selectedRelationship, adviceOpen,
                 adviceTopic, adviceSituation, advicePartner, adviceLoading, adviceList,
                 selectedAdvice, sessions, inputMessage, loading, localStorage,
                 onboarding, net, nextId, issued, clock, uncaught, typed>>

Range(seq) == {seq[i] : i \in DOMAIN seq}

\* a relationship button of the sidebar
selectRelationship(rel) ==
  /\ Main
  /\ rel \in Range(relationships)
  /\ selectedRelationship' = rel
  /\ sessionId' = NULL
  /\ messages' = <<>>
  /\ currentView' = "chat"
  /\ wizard' = MountWizard(wizard, userId, userProfile, "chat", nextId)
  /\ resetBy' = "selectRelationship"
  /\ UNCHANGED <<deleted, opened>>
  /\ last' = DidUi("selectRelationship")
  /\ UNCHANGED <<userId, userProfile, relationships, adviceOpen, adviceTopic,
                 adviceSituation, advicePartner, adviceLoading, adviceList, selectedAdvice,
                 sessions, inputMessage, loading, localStorage, onboarding, net, nextId,
                 issued, clock, uncaught, typed>>

\* Settings, Add Partner (sidebar and SettingsView), the wizard's Cancel and
\* SettingsView's Back: setCurrentView(view)
setCurrentView(view) ==
  /\ Main
  /\ view \in {"settings", "addPartner", "chat"}
  /\ view = "chat" => currentView = "settings"
  /\ view # currentView
  /\ currentView' = view
  /\ wizard' = MountWizard(wizard, userId, userProfile, view, nextId)
  /\ last' = DidUi("setCurrentView")
  /\ UNCHANGED <<userId, userProfile, relationships, selectedRelationship, messages,
                 adviceOpen, adviceTopic, adviceSituation, advicePartner, adviceLoading,
                 adviceList, selectedAdvice, sessions, inputMessage, sessionId, loading,
                 localStorage, onboarding, net, nextId, issued, clock, aux>>

\* ------------------------------------------------------------- openSession
\* the messages the backend keeps for a session (with a field the client drops)
HistoryMessages ==
  <<[role |-> "user", content |-> Text(<<"q">>), at |-> 1],
    [role |-> "assistant", content |-> Text(<<"r">>), at |-> 2]>>

\* GET /api/sessions/{sessionId}/history: {messages, partner_profile?,
\* relationship_type?}; a general session carries no partner_profile
HistoryData(s) ==
  IF s.context_type = "general"
  THEN {[none |-> TRUE],
        [messages |-> HistoryMessages, partner_profile |-> NULL]}
  ELSE {[messages |-> HistoryMessages,
         partner_profile |-> PartnerProfile(s.user, Text(<<"A">>))],
        [messages |-> HistoryMessages,
         partner_profile |-> PartnerProfile(s.user, Text(<<"A">>)),
         relationship_type |-> "romantic"]}

\* data.field, undefined when the response has no such field
Field(data, field) == IF field \in DOMAIN data THEN data[field] ELSE UNDEFINED

Truthy(x) == x # UNDEFINED /\ x # NULL

\* openSession up to its await
openSession(s) ==
  /\ Main
  /\ s \in Range(sessions)
  /\ s.context_type \in {"general", "partner"}
  /\ issued < MaxReq
  /\ net' = net \cup {Request(nextId + 1, "openSession", "GET",
                              Url("/api/sessions/{}/history", s.session_id), NULL,
                              [s |-> s])}
  /\ nextId' = nextId + 1
  /\ issued' = issued + 1
  /\ opened' = s
  /\ last' = DidCall("openSession", {nextId + 1})
  /\ UNCHANGED <<appVars, localStorage, onboarding, wizard, clock, uncaught, typed,
                 resetBy, deleted>>

\* a client that takes a relationship from every history response
sessionRelationship_always(data) ==
  [relationship_type |-> "general", partner_profile |-> Field(data, "partner_profile")]

\* if (data.partner_profile) setSelectedRelationship({...}) else
\* setSelectedRelationship(null)
sessionRelationship(data) ==
  IF Truthy(Field(data, "partner_profile"))
  THEN [relationship_type |-> IF "relationship_type" \in DOMAIN data
                              THEN OrString(data.relationship_type, "general")
                              ELSE "general",
        partner_profile |-> data.partner_profile]
  ELSE NULL

\* a client that shows the history newest first
sessionMessages_newestFirst(data) ==
  [i \in DOMAIN OrEmpty(data, "messages") |->
     Message(OrEmpty(data, "messages")[Len(OrEmpty(data, "messages")) + 1 - i].role,
             OrEmpty(data, "messages")[Len(OrEmpty(data, "messages")) + 1 - i].content, 0)]

\* (data.messages || []).map(m => ({ role: m.role, content: m.content }))
sessionMessages(data) ==
  [i \in DOMAIN OrEmpty(data, "messages") |->
     Message(OrEmpty(data, "messages")[i].role, OrEmpty(data, "messages")[i].content, 0)]

\* openSession after a successful response carrying data
openSession_ok(r, data) ==
  /\ r \in Pending("openSession")
  /\ data \in HistoryData(r.cap.s)
  /\ sessionId' = r.cap.s.session_id
  /\ selectedRelationship' = sessionRelationship(data)
  /\ messages' = sessionMessages(data)
  /\ currentView' = "chat"
  /\ wizard' = MountWizard(wizard, userId, userProfile, "chat", nextId)
  /\ net' = net \ {r}
  /\ resetBy' = "openSession"
  /\ UNCHANGED <<deleted, opened>>
  /\ last' = DidEnd("openSession", "ok", r, {})
  /\ UNCHANGED <<userId, userProfile, relationships, adviceOpen, adviceTopic,
                 adviceSituation, advicePartner, adviceLoading, adviceList, selectedAdvice,
                 sessions, inputMessage, loading, localStorage, onboarding, nextId,
                 issued, clock, uncaught, typed>>

openSession_fail(r, how) == load_fail("openSession", r, how)

\* ----------------------------------------------------------------- wizard
\* what the user may enter in each field of the partner-profile wizard
WizardValues ==
  [name |-> {<<>>, Text(<<" ">>), Text(<<"P">>)},
   birthday |-> {"", "2000-01-01"},
   relationship_status |-> {"romantic", "family"},
   love_language |-> {<<>>, Text(<<"Q">>)}]

\* the fields shown at each step (step 3 shows what was entered)
WizardFields(step) ==
  IF step = 1 THEN {"name", "birthday", "relationship_status"}
  ELSE IF step = 2 THEN {"love_language"}
  ELSE {}

\* onChange of a wizard input: setForm({...form, [field]: value})
wizardChange(field, value) ==
  /\ wizard # NULL
  /\ field \in WizardFields(wizard.step)
  /\ value \in WizardValues[field]
  /\ value # wizard.form[field]
  /\ wizard' = [wizard EXCEPT !.form[field] = value]
  /\ last' = DidUi("wizardChange")
  /\ UNCHANGED <<appVars, localStorage, onboarding, net, nextId, issued, clock, aux>>

\* a wizard that asks for the name only
mandatoryPresent_nameOnly(form) == ~IsBlank(form.name)

\* the condition of step 1 in next: all three mandatory fields are present
mandatoryPresent(form) ==
  ~IsBlank(form.name) /\ form.birthday # "" /\ form.relationship_status # ""

\* Save & Continue (steps 1 and 2): next
wizardNext ==
  /\ wizard # NULL
  /\ wizard.step \in {1, 2}
  /\ IF wizard.step = 1 /\ ~mandatoryPresent(wizard.form)
     THEN /\ last' = DidNoop("wizardNext")
          /\ UNCHANGED wizard
     ELSE /\ wizard' = [wizard EXCEPT !.step = Min(wizard.step + 1, total)]
          /\ last' = DidUi("wizardNext")
  /\ UNCHANGED <<appVars, localStorage, onboarding, net, nextId, issued, clock, aux>>

\* Back (steps 2 and 3): prev
wizardPrev ==
  /\ wizard # NULL
  /\ wizard.step \in {2, 3}
  /\ wizard' = [wizard EXCEPT !.step = Max(wizard.step - 1, 1)]
  /\ last' = DidUi("wizardPrev")
  /\ UNCHANGED <<appVars, localStorage, onboarding, net, nextId, issued, clock, aux>>

\* partner_profile of submit, as JSON.stringify sends it (love_language is
\* left out when empty: form.love_language || undefined)
wizardProfile(form) ==
  [k \in {"name", "preferences"} \cup (IF form.love_language # <<>> THEN {"love_language"} ELSE {})
     |-> IF k = "name" THEN form.name
         ELSE IF k = "love_language" THEN form.love_language
         ELSE [birthday |-> form.birthday]]

\* Save Profile (step 3, disabled while saving): submit up to its await
wizardSubmit ==
  /\ wizard # NULL
  /\ wizard.step = 3
  /\ ~wizard.saving
  /\ issued < MaxReq
  /\ wizard' = [wizard EXCEPT !.saving = TRUE]
  /\ net' = net \cup
       {Request(nextId + 1, "wizardSubmit", "POST", Url("/api/relationships", NULL),
                [user_id |-> userId, relationship_type |-> wizard.form.relationship_status,
                 partner_profile |-> wizardProfile(wizard.form)],
                [userId |-> userId, inst |-> wizard.inst])}
  /\ nextId' = nextId + 1
  /\ issued' = issued + 1
  /\ last' = DidCall("wizardSubmit", {nextId + 1})
  /\ UNCHANGED <<appVars, localStorage, onboarding, clock, aux>>

\* a submit without its finally block: saving stays as it is
stopSaving_never(wz, r) == wz

\* setSaving(false) reaches the instance that called submit, if still mounted
stopSaving(wz, r) ==
  IF wz # NULL /\ wz.inst = r.cap.inst THEN [wz EXCEPT !.saving = FALSE] ELSE wz

\* submit after a successful response: onSaved() calls loadRelationships() of
\* the render it was created in and setCurrentView('settings'); finally
\* setSaving(false)
wizardSubmit_ok(r) ==
  /\ r \in Pending("wizardSubmit")
  /\ currentView' = "settings"
  /\ wizard' = MountWizard(stopSaving(wizard, r), userId, userProfile, "settings", nextId + 1)
  /\ net' = (net \ {r}) \cup loadRelationshipsReq(nextId + 1, r.cap.userId)
  /\ nextId' = nextId + 1
  /\ last' = DidEnd("wizardSubmit", "ok", r, {nextId + 1})
  /\ UNCHANGED <<userId, userProfile, relationships, selectedRelationship, messages,
                 adviceOpen, adviceTopic, adviceSituation, advicePartner, adviceLoading,
                 adviceList, selectedAdvice, sessions, inputMessage, sessionId, loading,
                 localStorage, onboarding, issued, clock, aux>>

\* does a failure of kind how leave submit uncaught?  submit has try/finally
\* and no catch: a rejected fetch runs finally and then leaves the handler
escapes(how) == how = "network"

\* submit after a non-success status or a network failure: finally
\* setSaving(false)
wizardSubmit_fail(r, how) ==
  /\ r \in Pending("wizardSubmit")
  /\ how \in Failures
  /\ wizard' = stopSaving(wizard, r)
  /\ uncaught' = (uncaught \/ escapes(how))
  /\ net' = net \ {r}
  /\ last' = DidEnd("wizardSubmit", how, r, {})
  /\ UNCHANGED <<appVars, localStorage, onboarding, nextId, issued, clock, typed,
                 resetBy, deleted, opened>>

\* ------------------------------------------------------------------- advice
\* the options of the topic select (two of the eight)
Topics == {"Communication", "Trust"}

\* what the user may put into the situation textarea: nothing, blanks, a
\* short text, a text of exactly the limit, and texts beyond the limit
LongText(n) == Concat(Repeat("x", MaxSituation), Repeat("y", n))
SituationTexts == {<<>>, Text(<<" ">>), Text(<<"s">>)} \cup {LongText(n) : n \in 0..Over}

\* an entry of GET /api/advice/{userId} and the record of
\* GET /api/advice/item/{adviceId} and POST /api/advice
AdviceItem(id, topic) == [advice_id |-> id, topic |-> topic, preview |-> Text(<<"p">>)]
AdviceRecord(id, topic) ==
  [advice_id |-> id, topic |-> topic, content |-> Text(<<"c">>), created_at |-> 1]

\* GET /api/advice/{userId}: with or without an advice field
AdviceListData(uid) ==
  {[none |-> TRUE],
   [advice |-> <<AdviceItem(AdviceIdOf(1), "Trust"), AdviceItem(AdviceIdOf(2), "Trust")>>]}

loadAdviceList_ok(r, data) ==
  /\ r \in Pending("loadAdviceList")
  /\ CanSucceed(r)
  /\ data \in AdviceListData(r.url.arg)
  /\ adviceList' = OrEmpty(data, "advice")
  /\ net' = net \ {r}
  /\ last' = DidEnd("loadAdviceList", "ok", r, {})
  /\ UNCHANGED <<currentView, userId, userProfile, relationships, selectedRelationship,
                 messages, adviceOpen, adviceTopic, adviceSituation, advicePartner,
                 adviceLoading, selectedAdvice, sessions, inputMessage, sessionId, loading,
                 localStorage, onboarding, wizard, nextId, issued, clock, aux>>

loadAdviceList_fail(r, how) == load_fail("loadAdviceList", r, how)

\* Get Relationship Advice: setAdviceOpen(true); Cancel: setAdviceOpen(false)
setAdviceOpen(open) ==
  /\ Main
  /\ currentView = "chat"
  /\ open \in BOOLEAN
  /\ open = FALSE => adviceOpen
  /\ open # adviceOpen
  /\ adviceOpen' = open
  /\ last' = DidUi("setAdviceOpen")
  /\ UNCHANGED <<currentView, userId, userProfile, relationships, selectedRelationship,
                 messages, adviceTopic, adviceSituation, advicePartner, adviceLoading,
                 adviceList, selectedAdvice, sessions, inputMessage, sessionId, loading,
                 localStorage, onboarding, wizard, net, nextId, issued, clock, aux>>

\* topic select onChange
setAdviceTopic(topic) ==
  /\ Main
  /\ currentView = "chat"
  /\ adviceOpen
  /\ topic \in Topics
  /\ topic # adviceTopic
  /\ adviceTopic' = topic
  /\ last' = DidUi("setAdviceTopic")
  /\ UNCHANGED <<currentView, userId, userProfile, relationships, selectedRelationship,
                 messages, adviceOpen, adviceSituation, advicePartner, adviceLoading,
                 adviceList, selectedAdvice, sessions, inputMessage, sessionId, loading,
                 localStorage, onboarding, wizard, net, nextId, issued, clock, aux>>

\* relationships.find(r => (r.partner_profile?.name || '') === value) || null
findPartner(rels, value) ==
  IF \E i \in DOMAIN rels : rels[i].partner_profile.name = value
  THEN rels[CHOOSE i \in DOMAIN rels :
              /\ rels[i].partner_profile.name = value
              /\ \A j \in DOMAIN rels : rels[j].partner_profile.name = value => i <= j]
  ELSE NULL

\* partner select onChange: the options are "No partner" ('') and the names
\* of the relationships
setAdvicePartner(value) ==
  /\ Main
  /\ currentView = "chat"
  /\ adviceOpen
  /\ value \in {<<>>} \cup {rel.partner_profile.name : rel \in Range(relationships)}
  /\ findPartner(relationships, value) # advicePartner
  /\ advicePartner' = findPartner(relationships, value)
  /\ last' = DidUi("setAdvicePartner")
  /\ UNCHANGED <<currentView, userId, userProfile, relationships, selectedRelationship,
                 messages, adviceOpen, adviceTopic, adviceSituation, adviceLoading,
                 adviceList, selectedAdvice, sessions, inputMessage, sessionId, loading,
                 localStorage, onboarding, wizard, net, nextId, issued, clock, aux>>

\* a textarea that takes the text as typed
limitSituation_asTyped(value) == value

\* e.target.value.slice(0,1000)
limitSituation(value) == Slice0(value, MaxSituation)

\* situation textarea onChange: setAdviceSituation(e.target.value.slice(0,1000))
setAdviceSituation(value) ==
  /\ Main
  /\ currentView = "chat"
  /\ adviceOpen
  /\ value \in SituationTexts
  /\ value # typed
  /\ adviceSituation' = limitSituation(value)
  /\ typed' = value
  /\ last' = DidUi("setAdviceSituation")
  /\ UNCHANGED <<currentView, userId, userProfile, relationships, selectedRelationship,
                 messages, adviceOpen, adviceTopic, advicePartner, adviceLoading,
                 adviceList, selectedAdvice, sessions, inputMessage, sessionId, loading,
                 localStorage, onboarding, wizard, net, nextId, issued, clock, uncaught,
                 resetBy, deleted, opened>>

\* the payload of POST /api/advice
advicePayload(uid, topic, situation, partner, prof) ==
  Json([user_id |-> uid,
        topic |-> topic,
        situation |-> Slice0(situation, MaxSituation),
        partner_profile |-> IF partner # NULL THEN partner.partner_profile ELSE UNDEFINED,
        self_assessment |-> IF prof = NULL THEN UNDEFINED ELSE prof.self_assessment],
       {"partner_profile", "self_assessment"})

\* submitAdvice up to its await.  via "button": Get Advice, disabled while
\* adviceLoading or while the situation is blank.  via "handler": the function
\* called as it stands, whatever the button's state.
submitAdvice(via) ==
  /\ Main
  /\ currentView = "chat"
  /\ adviceOpen
  /\ via \in {"button", "handler"}
  /\ via = "button" => (~adviceLoading /\ ~IsBlank(adviceSituation))
  /\ IF adviceTopic = "" \/ IsBlank(adviceSituation)
     THEN /\ last' = DidNoop("submitAdvice")
          /\ UNCHANGED <<adviceLoading, net, nextId, issued>>
     ELSE /\ issued < MaxReq
          /\ adviceLoading' = TRUE
          /\ net' = net \cup
               {Request(nextId + 1, "submitAdvice", "POST", Url("/api/advice", NULL),
                        advicePayload(userId, adviceTopic, adviceSituation, advicePartner,
                                      userProfile),
                        [userId |-> userId, typed |-> typed])}
          /\ nextId' = nextId + 1
          /\ issued' = issued + 1
          /\ last' = DidCall("submitAdvice", {nextId + 1})
  /\ UNCHANGED <<currentView, userId, userProfile, relationships, selectedRelationship,
                 messages, adviceOpen, adviceTopic, adviceSituation, advicePartner,
                 adviceList, selectedAdvice, sessions, inputMessage, sessionId, loading,
                 localStorage, onboarding, wizard, clock, aux>>

\* POST /api/advice answers the created advice record
AdviceData(r) == AdviceRecord(AdviceIdOf(r.id), r.body.topic)

\* a client that keeps the id of the advice only
shownAdvice_idOnly(data) == [advice_id |-> data.advice_id]

\* { advice_id: data.advice_id, topic: data.topic, content: data.content,
\*   created_at: data.created_at }
shownAdvice(data) ==
  [advice_id |-> data.advice_id, topic |-> data.topic, content |-> data.content,
   created_at |-> data.created_at]

\* submitAdvice after a successful response: the advice is shown, the form is
\* closed and emptied, loadAdviceList() of the render the handler was created
\* in is called; finally setAdviceLoading(false)
submitAdvice_ok(r) ==
  /\ r \in Pending("submitAdvice")
  /\ selectedAdvice' = shownAdvice(AdviceData(r))
  /\ adviceOpen' = FALSE
  /\ adviceSituation' = <<>>
  /\ typed' = <<>>
  /\ advicePartner' = NULL
  /\ adviceLoading' = FALSE
  /\ net' = (net \ {r}) \cup loadAdviceListReq(nextId + 1, r.cap.userId)
  /\ nextId' = nextId + 1
  /\ last' = DidEnd("submitAdvice", "ok", r, Ids(loadAdviceListReq(nextId + 1, r.cap.userId)))
  /\ UNCHANGED <<currentView, userId, userProfile, relationships, selectedRelationship,
                 messages, adviceTopic, adviceList, sessions, inputMessage, sessionId,
                 loading, localStorage, onboarding, wizard, issued, clock, uncaught,
                 resetBy, deleted, opened>>

submitAdvice_fail(r, how) ==
  /\ r \in Pending("submitAdvice")
  /\ how \in Failures
  /\ adviceLoading' = FALSE
  /\ net' = net \ {r}
  /\ last' = DidEnd("submitAdvice", how, r, {})
  /\ UNCHANGED <<currentView, userId, userProfile, relationships, selectedRelationship,
                 messages, adviceOpen, adviceTopic, adviceSituation, advicePartner,
                 adviceList, selectedAdvice, sessions, inputMessage, sessionId, loading,
                 localStorage, onboarding, wizard, nextId, issued, clock, aux>>

\* Open of an Advice History entry: openAdvice up to its await
\* (if (!item?.advice_id) return: every entry has an id)
openAdvice(item) ==
  /\ Main
  /\ item \in Range(adviceList)
  /\ issued < MaxReq
  /\ net' = net \cup {Request(nextId + 1, "openAdvice", "GET",
                              Url("/api/advice/item/{}", item.advice_id), NULL, NULL)}
  /\ nextId' = nextId + 1
  /\ issued' = issued + 1
  /\ last' = DidCall("openAdvice", {nextId + 1})
  /\ UNCHANGED <<appVars, localStorage, onboarding, wizard, clock, aux>>

openAdvice_ok(r) ==
  /\ r \in Pending("openAdvice")
  /\ selectedAdvice' = AdviceRecord(r.url.arg, "Trust")
  /\ currentView' = "chat"
  /\ wizard' = MountWizard(wizard, userId, userProfile, "chat", nextId)
  /\ net' = net \ {r}
  /\ last' = DidEnd("openAdvice", "ok", r, {})
  /\ UNCHANGED <<userId, userProfile, relationships, selectedRelationship, messages,
                 adviceOpen, adviceTopic, adviceSituation, advicePartner, adviceLoading,
                 adviceList, sessions, inputMessage, sessionId, loading, localStorage,
                 onboarding, nextId, issued, clock, aux>>

openAdvice_fail(r, how) == load_fail("openAdvice", r, how)

\* Delete of an Advice History entry: deleteAdvice up to its await
deleteAdvice(advice_id) ==
  /\ Main
  /\ advice_id \in {a.advice_id : a \in Range(adviceList)}
  /\ issued < MaxReq
  /\ net' = net \cup {Request(nextId + 1, "deleteAdvice", "DELETE",
                              Url("/api/advice/{}", advice_id), NULL,
                              [advice_id |-> advice_id, selectedAdvice |-> selectedAdvice])}
  /\ nextId' = nextId + 1
  /\ issued' = issued + 1
  /\ last' = DidCall("deleteAdvice", {nextId + 1})
  /\ UNCHANGED <<appVars, localStorage, onboarding, wizard, clock, aux>>

\* prev.filter(a => a.advice_id !== advice_id)
removeAdvice(prev, advice_id) ==
  LET Keep(a) == a.advice_id # advice_id IN SelectSeq(prev, Keep)

\* if (selectedAdvice?.advice_id === advice_id) setSelectedAdvice(null), with
\* selectedAdvice of the render deleteAdvice was called in (shown)
clearDeleted(current, shown, advice_id) ==
  IF shown # NULL /\ shown.advice_id = advice_id THEN NULL ELSE current

deleteAdvice_ok(r) ==
  /\ r \in Pending("deleteAdvice")
  /\ adviceList' = removeAdvice(adviceList, r.cap.advice_id)
  /\ selectedAdvice' = clearDeleted(selectedAdvice, r.cap.selectedAdvice, r.cap.advice_id)
  /\ net' = net \ {r}
  /\ deleted' = deleted \cup {r.cap.advice_id}
  /\ last' = DidEnd("deleteAdvice", "ok", r, {})
  /\ UNCHANGED <<currentView, userId, userProfile, relationships, selectedRelationship,
                 messages, adviceOpen, adviceTopic, adviceSituation, advicePartner,
                 adviceLoading, sessions, inputMessage, sessionId, loading, localStorage,
                 onboarding, wizard, nextId, issued, clock, uncaught, typed, resetBy,
                 opened>>

deleteAdvice_fail(r, how) == load_fail("deleteAdvice", r, how)

\* Close of the advice shown: setSelectedAdvice(null)
closeAdvice ==
  /\ Main
  /\ currentView = "chat"
  /\ selectedAdvice # NULL
  /\ selectedAdvice' = NULL
  /\ last' = DidUi("closeAdvice")
  /\ UNCHANGED <<currentView, userId, userProfile, relationships, selectedRelationship,
                 messages, adviceOpen, adviceTopic, adviceSituation, advicePartner,
                 adviceLoading, adviceList, sessions, inputMessage, sessionId, loading,
                 localStorage, onboarding, wizard, net, nextId, issued, clock, aux>>

\* ----------------------------------------------------------- specifications
\* chat, sessions and relationship selection of a returning user
NextChat ==
  \/ \E r \in net : loadUserProfile_ok(r)
  \/ \E r \in Pending("loadRelationships") :
       \E data \in RelationshipsData(r.url.arg) : loadRelationships_ok(r, data)
  \/ \E r \in Pending("loadSessions") :
       \E data \in SessionsData(r.url.arg) : loadSessions_ok(r, data)
  \/ \E text \in ChatTexts : setInputMessage(text)
  \/ \E via \in {"button", "enter"} : sendMessage(via)
  \/ \E r \in net : sendMessage_ok(r)
  \/ \E r \in net, how \in Failures : sendMessage_fail(r, how)
  \/ newChat
  \/ \E rel \in Range(relationships) : selectRelationship(rel)
  \/ \E s \in Range(sessions) : openSession(s)
  \/ \E r \in Pending("openSession") :
       \E data \in HistoryData(r.cap.s) : openSession_ok(r, data)
  \/ \E r \in net, how \in Failures : openSession_fail(r, how)

SpecChat == Init /\ [][NextChat]_vars

\* onboarding, creation of users and sign out
NextUser ==
  \/ \E r \in net : loadUserProfile_ok(r)
  \/ \E r \in net, how \in Failures : loadUserProfile_fail(r, how)
  \/ \E field \in DOMAIN OnboardingValues :
       \E value \in OnboardingValues[field] : onboardingChange(field, value)
  \/ onboardingContinue
  \/ onboardingBack
  \/ handleSubmit
  \/ \E r \in net : createUser_ok(r)
  \/ \E r \in net, how \in Failures : createUser_fail(r, how)
  \/ signOut

SpecUser == Init /\ [][NextUser]_vars

\* the partner-profile wizard of a returning user
NextWizard ==
  \/ \E r \in net : loadUserProfile_ok(r)
  \/ \E r \in Pending("loadRelationships") :
       \E data \in RelationshipsData(r.url.arg) : loadRelationships_ok(r, data)
  \/ \E view \in {"settings", "addPartner"} : setCurrentView(view)
  \/ \E field \in DOMAIN WizardValues :
       \E value \in WizardValues[field] : wizardChange(field, value)
  \/ wizardNext
  \/ wizardPrev
  \/ wizardSubmit
  \/ \E r \in net : wizardSubmit_ok(r)
  \/ \E r \in net, how \in Failures : wizardSubmit_fail(r, how)

SpecWizard == Init /\ [][NextWizard]_vars

\* the advice form of a returning user
NextAdviceForm ==
  \/ \E r \in net : loadUserProfile_ok(r)
  \/ \E r \in Pending("loadRelationships") :
       \E data \in RelationshipsData(r.url.arg) : loadRelationships_ok(r, data)
  \/ \E open \in BOOLEAN : setAdviceOpen(open)
  \/ \E topic \in Topics : setAdviceTopic(topic)
  \/ \E value \in {<<>>, Text(<<"A">>)} : setAdvicePartner(value)
  \/ \E value \in SituationTexts : setAdviceSituation(value)
  \/ submitAdvice("button")
  \/ \E r \in net : submitAdvice_ok(r)
  \/ \E r \in net, how \in Failures : submitAdvice_fail(r, how)

SpecAdviceForm == Init /\ [][NextAdviceForm]_vars

\* the advice history of a returning user
NextAdviceList ==
  \/ \E r \in net : loadUserProfile_ok(r)
  \/ \E r \in Pending("loadAdviceList") :
       \E data \in AdviceListData(r.url.arg) : loadAdviceList_ok(r, data)
  \/ \E r \in net, how \in Failures : loadAdviceList_fail(r, how)
  \/ setAdviceOpen(TRUE)
  \/ setAdviceSituation(Text(<<"s">>))
  \/ submitAdvice("button")
  \/ \E r \in net : submitAdvice_ok(r)
  \/ \E item \in Range(adviceList) : openAdvice(item)
  \/ \E r \in net : openAdvice_ok(r)
  \/ \E r \in net, how \in Failures : openAdvice_fail(r, how)
  \/ \E a \in Range(adviceList) : deleteAdvice(a.advice_id)
  \/ \E r \in net : deleteAdvice_ok(r)
  \/ \E r \in net, how \in Failures : deleteAdvice_fail(r, how)
  \/ closeAdvice

SpecAdviceList == Init /\ [][NextAdviceList]_vars

\* every backend operation, each with its failures
NextFailures ==
  \/ \E r \in net : loadUserProfile_ok(r)
  \/ \E r \in net, how \in Failures : loadUserProfile_fail(r, how)
  \/ \E r \in net, how \in Failures : loadRelationships_fail(r, how)
  \/ \E r \in Pending("loadSessions") :
       \E data \in {d \in SessionsData(r.url.arg) : "sessions" \in DOMAIN d} :
         loadSessions_ok(r, data)
  \/ \E r \in net, how \in Failures : loadSessions_fail(r, how)
  \/ \E r \in Pending("loadAdviceList") :
       \E data \in {d \in AdviceListData(r.url.arg) : "advice" \in DOMAIN d} :
         loadAdviceList_ok(r, data)
  \/ \E r \in net, how \in Failures : loadAdviceList_fail(r, how)
  \/ \E field \in {"name", "email"} :
       \E value \in OnboardingValues[field] \ {<<>>} : onboardingChange(field, value)
  \/ onboardingContinue
  \/ handleSubmit
  \/ \E r \in net, how \in Failures : createUser_fail(r, how)
  \/ setInputMessage(Text(<<"a">>))
  \/ issued < MaxFailing /\ sendMessage("button")
  \/ \E r \in net, how \in Failures : sendMessage_fail(r, how)
  \/ setAdviceOpen(TRUE)
  \/ setAdviceSituation(Text(<<"s">>))
  \/ issued < MaxFailing /\ submitAdvice("button")
  \/ \E r \in net, how \in Failures : submitAdvice_fail(r, how)
  \/ issued < MaxFailing /\ \E item \in Range(adviceList) : openAdvice(item)
  \/ \E r \in net, how \in Failures : openAdvice_fail(r, how)
  \/ issued < MaxFailing /\ \E a \in Range(adviceList) : deleteAdvice(a.advice_id)
  \/ \E r \in net, how \in Failures : deleteAdvice_fail(r, how)
  \/ issued < MaxFailing /\ \E s \in Range(sessions) : openSession(s)
  \/ \E r \in net, how \in Failures : openSession_fail(r, how)

SpecFailures == Init /\ [][NextFailures]_vars

\* the two forms that create something, up to the sending of their requests:
\* onboarding and the partner-profile wizard of a returning user
NextForms ==
  \/ \E r \in net : loadUserProfile_ok(r)
  \/ \E field \in {"name", "email", "personalityType"} :
       \E value \in OnboardingValues[field] : onboardingChange(field, value)
  \/ onboardingContinue
  \/ onboardingBack
  \/ handleSubmit
  \/ \E view \in {"settings", "addPartner"} : setCurrentView(view)
  \/ \E field \in {"name", "birthday", "love_language"} :
       \E value \in WizardValues[field] : wizardChange(field, value)
  \/ wizardNext
  \/ wizardPrev
  \/ wizardSubmit
  \/ \E r \in net : wizardSubmit_ok(r)

SpecForms == Init /\ [][NextForms]_vars

\* sign in, sign out and an operation whose successful end issues a further
\* request (submitAdvice), for a fresh and for a returning user
NextRequests ==
  \/ \E r \in net : loadUserProfile_ok(r)
  \/ \E field \in {"name", "email"} :
       \E value \in OnboardingValues[field] \ {<<>>} : onboardingChange(field, value)
  \/ onboardingContinue
  \/ handleSubmit
  \/ \E r \in net : createUser_ok(r)
  \/ \E r \in net, how \in Failures : createUser_fail(r, how)
  \/ signOut
  \/ setAdviceOpen(TRUE)
  \/ setAdviceSituation(Text(<<"s">>))
  \/ issued < MaxFailing /\ submitAdvice("button")
  \/ \E r \in net : submitAdvice_ok(r)
  \/ \E r \in net, how \in Failures : submitAdvice_fail(r, how)

SpecRequests == Init /\ [][NextRequests]_vars

\* the submitAdvice handler, called from its button and as a function in
\* every state of the advice form
NextAdviceSubmit ==
  \/ \E r \in net : loadUserProfile_ok(r)
  \/ \E r \in Pending("loadRelationships") :
       \E data \in RelationshipsData(r.url.arg) : loadRelationships_ok(r, data)
  \/ \E open \in BOOLEAN : setAdviceOpen(open)
  \/ \E topic \in Topics : setAdviceTopic(topic)
  \/ \E value \in {<<>>, Text(<<"A">>)} : setAdvicePartner(value)
  \/ \E value \in {<<>>, Text(<<" ">>), Text(<<"s">>)} : setAdviceSituation(value)
  \/ \E via \in {"button", "handler"} : submitAdvice(via)
  \/ \E r \in net : submitAdvice_ok(r)
  \/ \E r \in net, how \in Failures : submitAdvice_fail(r, how)
  \/ closeAdvice

SpecAdviceSubmit == Init /\ [][NextAdviceSubmit]_vars

\* the session history, opened from any view and over any transcript
NextSessions ==
  \/ \E r \in net : loadUserProfile_ok(r)
  \/ \E r \in Pending("loadRelationships") :
       \E data \in RelationshipsData(r.url.arg) : loadRelationships_ok(r, data)
  \/ \E r \in Pending("loadSessions") :
       \E data \in SessionsData(r.url.arg) : loadSessions_ok(r, data)
  \/ \E view \in {"settings", "chat"} : setCurrentView(view)
  \/ \E rel \in Range(relationships) : selectRelationship(rel)
  \/ setInputMessage(Text(<<"a">>))
  \/ sendMessage("button")
  \/ \E r \in net : sendMessage_ok(r)
  \/ \E s \in Range(sessions) : openSession(s)
  \/ \E r \in Pending("openSession") :
       \E data \in HistoryData(r.cap.s) : openSession_ok(r, data)
  \/ \E r \in net, how \in Failures : openSession_fail(r, how)

SpecSessions == Init /\ [][NextSessions]_vars

\* a user who chats, signs out and creates another user
NextSwitchUser ==
  \/ \E r \in net : loadUserProfile_ok(r)
  \/ \E r \in Pending("loadRelationships") :
       \E data \in {d \in RelationshipsData(r.url.arg) : "relationships" \in DOMAIN d} :
         loadRelationships_ok(r, data)
  \/ \E rel \in Range(relationships) : selectRelationship(rel)
  \/ setInputMessage(Text(<<"a">>))
  \/ sendMessage("button")
  \/ \E r \in net : sendMessage_ok(r)
  \/ signOut
  \/ \E field \in {"name", "email"} :
       \E value \in OnboardingValues[field] \ {<<>>} : onboardingChange(field, value)
  \/ onboardingContinue
  \/ handleSubmit
  \/ \E r \in net : createUser_ok(r)

SpecSwitchUser == Init /\ [][NextSwitchUser]_vars

\* the three operations that raise a busy flag: sendMessage (loading),
\* submitAdvice (adviceLoading) and the wizard's submit (saving)
NextBusy ==
  \/ \E r \in net : loadUserProfile_ok(r)
  \/ setInputMessage(Text(<<"a">>))
  \/ \E via \in {"button", "enter"} : sendMessage(via)
  \/ \E r \in net : sendMessage_ok(r)
  \/ \E r \in net, how \in Failures : sendMessage_fail(r, how)
  \/ setAdviceOpen(TRUE)
  \/ setAdviceSituation(Text(<<"s">>))
  \/ submitAdvice("button")
  \/ \E r \in net : submitAdvice_ok(r)
  \/ \E r \in net, how \in Failures : submitAdvice_fail(r, how)
  \/ \E view \in {"chat", "addPartner"} : setCurrentView(view)
  \/ wizardChange("name", Text(<<"P">>))
  \/ wizardChange("birthday", "2000-01-01")
  \/ wizardNext
  \/ wizardSubmit
  \/ \E r \in net : wizardSubmit_ok(r)
  \/ \E r \in net, how \in Failures : wizardSubmit_fail(r, how)

\* a request of operation op in flight is answered: with a success, with a
\* non-success status or with a network failure
sendMessageCompletes ==
  \E r \in net : sendMessage_ok(r) \/ \E how \in Failures : sendMessage_fail(r, how)

submitAdviceCompletes ==
  \E r \in net : submitAdvice_ok(r) \/ \E how \in Failures : submitAdvice_fail(r, how)

wizardSubmitCompletes ==
  \E r \in net : wizardSubmit_ok(r) \/ \E how \in Failures : wizardSubmit_fail(r, how)

\* every fetch of the three operations settles: its promise resolves or
\* rejects, and the continuation after the await then runs
SpecBusy ==
  /\ Init /\ [][NextBusy]_vars
  /\ WF_vars(sendMessageCompletes)
  /\ WF_vars(submitAdviceCompletes)
  /\ WF_vars(wizardSubmitCompletes)

\* ------------------------------------------------------------------ claims
\* the chat requests whose reply stands in a transcript
Replied(msgs) == {m.req : m \in {x \in Range(msgs) : x.role = "assistant" /\ x.req # 0}}

\* sendMessage issued a request in the step just taken
SentJustNow == last.op = "sendMessage" /\ last.step = "call"

\* C1, at the call: the transcript is the one before the call with the user
\* message (the input's text) at its end, and the chat request is in flight
C1_AtCall ==
  SentJustNow =>
    /\ \E r \in Pending("sendMessage") :
         /\ last.new = {r.id}
         /\ messages = Append(last.pre.messages,
                              Message("user", last.pre.inputMessage, r.id))
    /\ Replied(messages) = Replied(last.pre.messages)

\* C1, at the end of a chat request: a step adds the reply of request id only
\* if it is the successful end of request id; a failed end leaves the
\* transcript as it is
C1_AtEnd ==
  /\ \A id \in Replied(messages') \ Replied(messages) :
       \E r \in Pending("sendMessage") : r.id = id /\ sendMessage_ok(r)
  /\ \A r \in Pending("sendMessage"), how \in Failures :
       sendMessage_fail(r, how) => messages' = messages

\* C1: sendMessage with non-blank input appends the user message in the step
\* that issues the chat request, and an assistant message is appended only by
\* the successful end of that request; a request that failed is no longer in
\* flight, so no assistant message is ever added for it.
C1_UserNowAssistantOnSuccess ==
  /\ [](C1_AtCall /\ Replied(messages) \cap Ids(net) = {})
  /\ [][C1_AtEnd]_vars

\* C1 witness: a chat request has just failed and its user message stands at
\* the end of the transcript with no reply
C1_FailedSendSeen ==
  /\ last.op = "sendMessage"
  /\ last.step \in Failures
  /\ messages # <<>>
  /\ messages[Len(messages)].role = "user"
  /\ messages[Len(messages)].req \in last.ids

\* C5: when openSession succeeds with a history response that has no
\* partner_profile (the field missing or null), selectedRelationship is null
\* afterwards, whatever was selected before.
C5_NoPartnerProfileClearsRelationship ==
  [][\A r \in Pending("openSession") : \A data \in HistoryData(r.cap.s) :
       (openSession_ok(r, data) /\ ~Truthy(Field(data, "partner_profile")))
         => selectedRelationship' = NULL]_vars

\* C5 witness: a relationship was selected when the history of a session
\* arrived, and none is selected after it
C5_RelationshipCleared ==
  /\ last.op = "openSession"
  /\ last.step = "ok"
  /\ last.pre.selectedRelationship # NULL
  /\ selectedRelationship = NULL

\* C10: chat sends are not serialized.  A reply is put at the end of the
\* transcript as it stands when the response arrives, wherever the user
\* message it answers is, and the Enter key starts a send whenever the input
\* is not blank, a chat request in flight (loading) or not.
C10_RepliesInArrivalOrder ==
  /\ (last.op = "sendMessage" /\ last.step = "ok") =>
       /\ Len(messages) = Len(last.pre.messages) + 1
       /\ SubSeq(messages, 1, Len(last.pre.messages)) = last.pre.messages
       /\ messages[Len(messages)].role = "assistant"
       /\ messages[Len(messages)].req \in last.ids
  /\ (Main /\ currentView = "chat" /\ ~IsBlank(inputMessage) /\ issued < MaxReq)
       => ENABLED sendMessage("enter")

\* C10 witness: the reply to a later user message stands before the reply to
\* an earlier one
C10_RepliesOutOfOrder ==
  \E i, j \in DOMAIN messages :
    /\ i < j
    /\ messages[i].role = "assistant"
    /\ messages[j].role = "assistant"
    /\ messages[i].req > messages[j].req
    /\ messages[j].req # 0

\* the i-th character of a string (1-based)
RECURSIVE CharAt(_, _)
CharAt(s, i) == IF i <= Head(s).n THEN Head(s).c ELSE CharAt(Tail(s), i - Head(s).n)

\* a is the first n characters of b (all of b when b is shorter)
IsFirstChars(a, b, n) ==
  /\ Length(a) = Min(Length(b), n)
  /\ \A i \in 1..Length(a) : CharAt(a, i) = CharAt(b, i)

\* C6: the situation text held by the form has at most 1000 characters, and
\* the situation of every POST /api/advice request in flight has at most 1000
\* characters and is the first 1000 characters of what the user typed.
C6_SituationWithinLimit ==
  /\ Length(adviceSituation) <= MaxSituation
  /\ IsFirstChars(adviceSituation, typed, MaxSituation)
  /\ \A r \in Pending("submitAdvice") :
       /\ r.method = "POST"
       /\ r.url.path = "/api/advice"
       /\ Length(r.body.situation) <= MaxSituation
       /\ IsFirstChars(r.body.situation, r.cap.typed, MaxSituation)

\* C6 witness: an advice request is in flight for a text typed beyond the limit
C6_LongTextSubmitted ==
  \E r \in Pending("submitAdvice") :
    /\ Length(r.cap.typed) > MaxSituation
    /\ Length(r.body.situation) = MaxSituation

\* C4: when a deleteAdvice(id) request succeeds, exactly the item with that id
\* leaves adviceList (the others stay, in order), and if the advice open in the
\* view when the response is applied has that id, selectedAdvice becomes null.
C4_DeleteRemovesAndCloses ==
  [][\A r \in Pending("deleteAdvice") :
       deleteAdvice_ok(r) =>
         /\ LET Other(a) == a.advice_id # r.cap.advice_id
            IN adviceList' = SelectSeq(adviceList, Other)
         /\ (selectedAdvice # NULL /\ selectedAdvice.advice_id = r.cap.advice_id)
              => selectedAdvice' = NULL]_vars

\* every optional field of the onboarding form is empty, name and email are not
OnlyNameAndEmail(formData) ==
  /\ formData.name # <<>>
  /\ formData.email # <<>>
  /\ \A key \in DOMAIN AssessmentKeys : formData[AssessmentKeys[key]] = <<>>

\* C7, at the call: Get Started on a form with name and email only has issued
\* one POST /api/users carrying the name, the email and no self-assessment
\* (self_assessment: null)
C7_AtCall ==
  (last.op = "createUser" /\ last.step = "call" /\ OnlyNameAndEmail(onboarding.formData)) =>
    \E r \in Pending("createUser") :
      /\ last.new = {r.id}
      /\ r.method = "POST"
      /\ r.url = Url("/api/users", NULL)
      /\ r.body.user_id \in {NewUserId(t) : t \in 1..clock}
      /\ r.body.name = onboarding.formData.name
      /\ r.body.email = onboarding.formData.email
      /\ r.body.self_assessment = NULL

\* C7: submitting onboarding with a name, an email and every optional field
\* empty issues a POST /api/users request without a self-assessment, and a
\* successful response sets userId to the id the request carries.
C7_CreateUserWithoutAssessment ==
  /\ []C7_AtCall
  /\ [][\A r \in Pending("createUser") :
          createUser_ok(r) => (userId' = r.body.user_id /\ userId' # NULL)]_vars

\* C7 witness: the request of a form with name and email only was answered
\* with a success right after it was issued, and the new user is set
C7_UserCreatedFromNameAndEmail ==
  /\ last.op = "createUser"
  /\ last.step = "ok"
  /\ last.call # NULL
  /\ last.pre.userId = NULL
  /\ onboarding # NULL
  /\ OnlyNameAndEmail(onboarding.formData)
  /\ userId = NewUserId(clock)

\* C8: browser storage holds no key but 'luvvtapp_user_id', and between
\* handler steps the stored value is the in-memory userId: after a successful
\* createUser both hold the new id, after Sign Out both are absent, and a
\* failed createUser changes neither.
C8_StorageAgreesWithUserId ==
  /\ DOMAIN localStorage \subseteq {STORAGE_KEY}
  /\ getItem(localStorage, STORAGE_KEY) = userId
  /\ (last.op = "createUser" /\ last.step = "ok") =>
       /\ userId \in {NewUserId(t) : t \in 1..clock}
       /\ localStorage[STORAGE_KEY] = userId
  /\ last.op = "signOut" => (userId = NULL /\ DOMAIN localStorage = {})
  /\ (last.op = "createUser" /\ last.step \in Failures) =>
       /\ userId = last.pre.userId
       /\ getItem(localStorage, STORAGE_KEY) = last.pre.stored
       /\ DOMAIN localStorage = last.pre.keys

\* C8 witness: a user created in this run has signed out
C8_CreatedUserSignedOut ==
  /\ last.op = "signOut"
  /\ last.pre.userId \in {NewUserId(t) : t \in 1..clock}
  /\ last.pre.stored = last.pre.userId

\* the endpoint of a request, and the requests the last step issued
Endpoint(r) == <<r.method, r.url.path>>
JustIssued == {r \in net : r.id \in last.new}

\* the userId effect ran in the last step for a user id that is not null
UserIdSet ==
  /\ userId # NULL
  /\ \/ last.op = "mount"
     \/ last.op = "createUser" /\ last.step = "ok" /\ userId # last.pre.userId

\* C9: one triggering event (a user action or a change of userId) causes each
\* backend endpoint to be requested at most once, the end of a failed request
\* issues nothing (no retry), and a change of userId to a non-null value
\* issues one GET each for the profile, the relationships, the sessions and
\* the advice list of that user.
C9_EachEndpointOncePerEvent ==
  /\ \A a, b \in JustIssued : a.id # b.id => Endpoint(a) # Endpoint(b)
  /\ last.step \in Failures => last.new = {}
  /\ UserIdSet =>
       \A path \in {"/api/users/{}", "/api/relationships/{}", "/api/sessions/{}",
                    "/api/advice/{}"} :
         Cardinality({r \in JustIssued : r.method = "GET" /\ r.url = Url(path, userId)}) = 1

\* C3: no error escapes a handler: every network failure is caught by the
\* handler that issued the request.
C3_NoErrorEscapes == uncaught = FALSE

\* the backend operations
Operations ==
  {"openSession", "loadUserProfile", "loadRelationships", "loadSessions", "loadAdviceList",
   "createUser", "sendMessage", "submitAdvice", "openAdvice", "deleteAdvice"}

\* the part of the user-visible state the failure properties are about
UiFields ==
  {"messages", "inputMessage", "sessionId", "selectedRelationship", "selectedAdvice",
   "adviceList", "adviceOpen", "adviceTopic", "adviceSituation", "advicePartner",
   "currentView", "userId"}
UiState(u) == [f \in UiFields |-> u[f]]

\* a request of one of the operations has just failed; FailedAtOnce: and its
\* call was the step before
Failed == last.op \in Operations /\ last.step \in Failures
FailedAtOnce == Failed /\ last.call # NULL

\* the state sendMessage leaves when called in state u for request id
AfterSend(u, id) ==
  [UiState(u) EXCEPT !["messages"] = Append(@, Message("user", u.inputMessage, id)),
                     !["inputMessage"] = <<>>]

\* C2 as stated: for every backend operation, when the request fails the UI
\* state once the call has finished is the state just before the call.
C2_FailureLeavesPreCallState ==
  FailedAtOnce => UiState(Ui) = UiState(last.call)

\* C2 as amended: the end of a failed request changes none of the fields.
\* For every operation but sendMessage the call changes none either, so the
\* state after the failed call is the state before it; sendMessage appended
\* the user message and emptied the input when called, and both stay.
C2_FailureChangesNothingMore ==
  /\ Failed => UiState(Ui) = UiState(last.pre)
  /\ (FailedAtOnce /\ last.op # "sendMessage") => UiState(Ui) = UiState(last.call)
  /\ (FailedAtOnce /\ last.op = "sendMessage") =>
       \E id \in last.ids : UiState(Ui) = AfterSend(last.call, id)

\* C2 witness: a chat request failed right after its call, and the transcript
\* is not the one before the call
C2_FailedSendKeepsUserMessage ==
  /\ FailedAtOnce
  /\ last.op = "sendMessage"
  /\ messages # last.call.messages
  /\ inputMessage # last.call.inputMessage

\* a chat context is partner-scoped when it has a partner_profile and a
\* relationship_type other than 'general'
PartnerScoped(rel) == Truthy(rel.partner_profile) /\ rel.relationship_type # "general"

\* C11: the chat context is partner-scoped iff it carries both a
\* relationship_type and a partner_profile: selectedRelationship is null or
\* has a partner_profile together with a relationship_type other than
\* 'general', and every POST /api/chat request in flight carries a
\* partner_profile iff its relationship_type is not 'general'.
C11_ContextPartnerScoped ==
  /\ selectedRelationship # NULL => PartnerScoped(selectedRelationship)
  /\ \A r \in Pending("sendMessage") :
       ("partner_profile" \in DOMAIN r.body) <=> (r.body.relationship_type # "general")

\* C12: no create request is sent with a mandatory field missing: every
\* POST /api/users request carries a non-empty name and a non-empty email, and
\* every POST /api/relationships request of the wizard carries a non-blank
\* name, a non-empty birthday and a relationship status, whatever path the
\* user took through the forms (back and forth, editing).
C12_NoCreateWithoutMandatoryFields ==
  /\ \A r \in Pending("createUser") :
       /\ r.method = "POST" /\ r.url.path = "/api/users"
       /\ r.body.name # <<>>
       /\ r.body.email # <<>>
  /\ \A r \in Pending("wizardSubmit") :
       /\ r.method = "POST" /\ r.url.path = "/api/relationships"
       /\ ~IsBlank(r.body.partner_profile.name)
       /\ r.body.partner_profile.preferences.birthday # ""
       /\ r.body.relationship_type # ""
  /\ (onboarding # NULL /\ onboarding.step = 2) =>
       (onboarding.formData.name # <<>> /\ onboarding.formData.email # <<>>)
  /\ (wizard # NULL /\ wizard.step > 1) => mandatoryPresent(wizard.form)

\* C12 witness: a wizard request is in flight, and the user, back at step 1
\* after having filled step 2, has emptied a mandatory field and was refused
\* by Save & Continue
C12_RefusedAfterGoingBack ==
  /\ Pending("wizardSubmit") # {}
  /\ wizard # NULL
  /\ wizard.step = 1
  /\ wizard.form.love_language # <<>>
  /\ ~mandatoryPresent(wizard.form)
  /\ last.op = "wizardNext"
  /\ last.step = "noop"

\* the operations whose successful end issues a further request
FollowedUp == {"createUser", "submitAdvice", "wizardSubmit"}

\* there was no user id before the step just taken, and the step issued a
\* request
IssuedWithoutUser == last.pre # NULL /\ last.pre.userId = NULL /\ last.new # {}

OfThisChat == {r \in Pending("sendMessage") :
                 \E m \in Range(messages) : m.role = "user" /\ m.req = r.id}

\* C14: within one chat each POST /api/chat carries the session_id the client
\* holds when it is sent, a successful reply sets sessionId to the session_id
\* it returns, and at most one request of the chat is sent with a null
\* session_id (stated for the requests in flight: no two requests of the chat
\* on screen carry a null session_id).
C14_OneNullSessionRequestPerChat ==
  /\ SentJustNow =>
       \A r \in JustIssued : r.body.session_id = last.pre.sessionId
  /\ (last.op = "sendMessage" /\ last.step = "ok") => sessionId # NULL
  /\ Cardinality({r \in OfThisChat : r.body.session_id = NULL}) <= 1

\* C15, successful end of request r: selectedAdvice is the returned record
\* (its advice_id, topic, content and created_at), the form is closed, the
\* situation text and the referenced partner are cleared, and one request is
\* issued: the reload of the advice list of the user who asked
C15_AtSuccess ==
  \A r \in Pending("submitAdvice") :
    submitAdvice_ok(r) =>
      /\ DOMAIN selectedAdvice' = {"advice_id", "topic", "content", "created_at"}
      /\ \A f \in DOMAIN selectedAdvice' : selectedAdvice'[f] = AdviceData(r)[f]
      /\ adviceOpen' = FALSE
      /\ adviceSituation' = <<>>
      /\ advicePartner' = NULL
      /\ \E q \in net' :
           /\ net' \ net = {q}
           /\ q.method = "GET"
           /\ q.url = Url("/api/advice/{}", r.body.user_id)

\* C15, blank situation: a call of submitAdvice issues no request and changes
\* no state
C15_AtBlank ==
  \A via \in {"button", "handler"} :
    (submitAdvice(via) /\ IsBlank(adviceSituation)) =>
      UNCHANGED <<appVars, localStorage, onboarding, wizard, net, nextId>>

\* C15: a successful submitAdvice shows the returned advice record, closes
\* and empties the advice form and reloads the advice list; submitAdvice with
\* an empty or whitespace-only situation issues no request and changes no
\* state.
C15_SubmitAdviceShowsAndReloads == [][C15_AtSuccess /\ C15_AtBlank]_vars

\* C15 witness: an advice was asked and answered (it is shown and the reload
\* of the advice list is in flight), and then, the form opened again with
\* blanks typed into it, submitAdvice was called and did nothing
C15_ShownThenBlankRefused ==
  /\ last.op = "submitAdvice"
  /\ last.step = "noop"
  /\ adviceOpen
  /\ adviceSituation # <<>>
  /\ IsBlank(adviceSituation)
  /\ selectedAdvice # NULL
  /\ selectedAdvice.advice_id \in {AdviceIdOf(n) : n \in 1..nextId}
  /\ \E q \in Pending("loadAdviceList") : q.id > 5

\* C16: every profile fetch a successful createUser causes (the direct
\* loadUserProfile call and the one of the userId effect) is a GET
\* /api/users/{id} for the newly created user id, never null or a previous
\* id, and when a profile fetch succeeds for a user who is set, the
\* application has left the onboarding screen.
C16_ProfileFetchedForNewUser ==
  /\ (last.op = "createUser" /\ last.step = "ok") =>
       /\ userId \in {NewUserId(t) : t \in 1..clock}
       /\ \E r \in JustIssued : r.op = "loadUserProfile"
       /\ \A r \in JustIssued :
            r.op = "loadUserProfile" =>
              (r.method = "GET" /\ r.url = Url("/api/users/{}", userId))
  /\ (last.op = "loadUserProfile" /\ last.step = "ok" /\ userId # NULL) =>
       (Main /\ onboarding = NULL)

FirstOfChat ==
  /\ SentJustNow
  /\ \A m \in Range(last.pre.messages) : m.role # "user"

\* C18: selecting a relationship sets selectedRelationship to it, sets
\* sessionId to null and empties the transcript, and the next chat request
\* (the first of the chat so started) is sent with a null session_id and that
\* relationship's type and partner_profile; New Chat empties the transcript
\* and sets sessionId to null, leaves selectedRelationship as it is, and the
\* next chat request is sent with a null session_id.
C18_NewContextStartsNewSession ==
  /\ last.op = "selectRelationship" =>
       /\ selectedRelationship \in Range(relationships)
       /\ sessionId = NULL
       /\ messages = <<>>
  /\ last.op = "newChat" => (sessionId = NULL /\ messages = <<>>)
  /\ (FirstOfChat /\ resetBy \in {"selectRelationship", "newChat"}) =>
       \A r \in JustIssued : r.body.session_id = NULL
  /\ (FirstOfChat /\ resetBy = "selectRelationship") =>
       \A r \in JustIssued :
         /\ r.body.relationship_type = selectedRelationship.relationship_type
         /\ r.body.partner_profile = selectedRelationship.partner_profile

\* a string of no characters or of spaces only
WhitespaceOnly(s) == \A i \in DOMAIN s : s[i].c = " "

\* C19: sendMessage with an empty or whitespace-only input is a no-op: no
\* request is issued and messages, inputMessage, loading and sessionId are
\* unchanged.
C19_BlankSendIsNoop ==
  [][\A via \in {"button", "enter"} :
       (sendMessage(via) /\ WhitespaceOnly(inputMessage)) =>
         UNCHANGED <<messages, inputMessage, loading, sessionId, net, nextId>>]_vars

\* C19 witness: Enter was pressed on an input of spaces, during a chat, and
\* nothing happened
C19_EnterOnSpaces ==
  /\ last.op = "sendMessage"
  /\ last.step = "noop"
  /\ inputMessage # <<>>
  /\ WhitespaceOnly(inputMessage)
  /\ messages # <<>>
  /\ Pending("sendMessage") # {}

\* every reply in the transcript stands after the user message it answers
RepliesWithTheirQuestions ==
  \A i \in DOMAIN messages :
    (messages[i].role = "assistant" /\ messages[i].req # 0) =>
      \E j \in 1..(i - 1) : messages[j].role = "user" /\ messages[j].req = messages[i].req

\* C20: an assistant reply is only appended to the transcript that contains
\* the user message it answers: the reply to a request whose user message is
\* no longer on screen (New Chat, a relationship selected or a session opened
\* while the request was in flight) adds no message and leaves sessionId as
\* it is.
C20_LateReplyIgnored ==
  /\ []RepliesWithTheirQuestions
  /\ [][\A r \in Pending("sendMessage") :
          (sendMessage_ok(r) /\ r \notin OfThisChat) =>
            (messages' = messages /\ sessionId' = sessionId)]_vars

\* C21: whenever the main (non-onboarding) view is displayed, userProfile is
\* the profile fetched for the current userId; in particular, after Sign Out
\* and the creation of a new user, the previous user's profile is not shown
\* under the new user id.
C21_ProfileOfCurrentUser ==
  Main => userProfile.user_id = userId

\* the state held by the client belongs to the user u
OfUser(u) ==
  /\ \A s \in Range(sessions) : s.user = u
  /\ \A rel \in Range(relationships) : rel.partner_profile.user = u
  /\ selectedRelationship # NULL => selectedRelationship.partner_profile.user = u

\* C22: no state of a previous user is carried over to a new user: when a new
\* user has been created the transcript, the session id and the advice list
\* held by the client are empty; the main view shows sessions, relationships
\* and a selected relationship of the current user only; every POST /api/chat
\* carries a partner_profile of the user_id it names and is sent with the
\* self_assessment of the profile of that user.
C22_NoStateOfPreviousUser ==
  /\ (last.op = "createUser" /\ last.step = "ok") =>
       (messages = <<>> /\ sessionId = NULL /\ adviceList = <<>>)
  /\ Main => OfUser(userId)
  /\ SentJustNow => userProfile.user_id = userId
  /\ \A r \in Pending("sendMessage") :
       "partner_profile" \in DOMAIN r.body =>
         r.body.partner_profile.user = r.body.user_id

\* the advice ids on screen: in the history list or as the advice shown
AdviceOnScreen ==
  {a.advice_id : a \in Range(adviceList)} \cup
  (IF selectedAdvice = NULL THEN {} ELSE {selectedAdvice.advice_id})

\* C23: once a deleteAdvice(id) has been answered with a success, the advice
\* with that id is neither in adviceList nor the selectedAdvice, whatever the
\* order in which the openAdvice and loadAdviceList requests in flight are
\* answered.
C23_DeletedAdviceStaysGone ==
  deleted \cap AdviceOnScreen = {}

\* C24: the loading flag is true exactly when at least one chat request is in
\* flight (sent and neither answered nor failed).
C24_LoadingIffChatInFlight ==
  loading <=> Pending("sendMessage") # {}

\* the wizard on screen has its Save Profile button disabled
WizardSaving == wizard # NULL /\ wizard.saving

\* the operation op issued its request in the step just taken
CalledJustNow(op) == last.op = op /\ last.step = "call"

\* C25: busy flags never stick: when every request issued is eventually
\* answered (success, non-success status or network failure), every
\* sendMessage is eventually followed by loading = false, every submitAdvice
\* by adviceLoading = false and every wizard submit by saving = false.
C25_BusyFlagsReleased ==
  /\ CalledJustNow("sendMessage") ~> ~loading
  /\ CalledJustNow("submitAdvice") ~> ~adviceLoading
  /\ CalledJustNow("wizardSubmit") ~> ~WizardSaving

\* C25, reached: with two user requests issued, a wizard submit has failed in
\* the wizard still on screen and no busy flag is set
C25_AllFlagsDown ==
  /\ last.op = "wizardSubmit" /\ last.step \in Failures
  /\ wizard # NULL /\ ~wizard.saving
  /\ issued = MaxReq
  /\ ~loading /\ ~adviceLoading

\* C26: once the responses of all openSession requests have been applied, the
\* UI shows the session requested last, not the one whose response arrived
\* last: sessionId is its id and selectedRelationship is that of its history
\* (none for a general session, its partner for a partner session).
C26_LatestRequestedSessionShown ==
  (last.op = "openSession" /\ last.step = "ok" /\ Pending("openSession") = {}) =>
    /\ sessionId = opened.session_id
    /\ (selectedRelationship = NULL) <=> (opened.context_type = "general")

====
